---- MODULE Spec2Model ----
(***************************************************************************)
(* FreeList<T, Size> (include/freelist/freelist.h): a fixed-capacity pool  *)
(* whose control word {next, count, free, tag} and element array share one *)
(* storage block, and whose free slots are chained through their own       *)
(* storage.  The instantiation modelled is FreeList<int8_t, 8>: a one-byte  *)
(* element type, so index_type is uint8_t, the control word is four bytes  *)
(* (the cells 0..3), and the slots are the cells 4..7 of the eight cells.  *)
(***************************************************************************)
EXTENDS Integers, Sequences, FiniteSets, TLC

(***************************************************************************)
(* Instantiation and layout constants                                      *)
(***************************************************************************)
Size == 8
SizeofT == 1

\* the first threshold taken one too far
IndexBytesLate(S) ==
    IF S <= 256 THEN 1
    ELSE IF (S \div 2) <= 65535 THEN 2
    ELSE IF (S \div 8) <= 2147483647 THEN 4
    ELSE 8

\* index_type: the std::conditional chain on Size.  The third test,
\* (Size / 4) <= 2^32 - 1, is written with both sides halved.
IndexBytes(S) ==
    IF S <= 255 THEN 1
    ELSE IF (S \div 2) <= 65535 THEN 2
    ELSE IF (S \div 8) <= 2147483647 THEN 4
    ELSE 8

Max(a, b) == IF a >= b THEN a ELSE b

\* sizeof(index_type) for this instantiation, and the modulus of its arithmetic
index_size == IndexBytes(Size)
IndexMod == 2 ^ (8 * index_size)

\* sizeof(Element): union of T and index_type
kElementSize == Max(SizeofT, index_size)

kIndexCount == Size \div kElementSize

\* sizeof(data.control): four index_type fields
SizeofControl == 4 * index_size

kElementOverheadCount == (SizeofControl + kElementSize - 1) \div kElementSize

max_size == kIndexCount - kElementOverheadCount

Slots == kElementOverheadCount .. (kIndexCount - 1)

(***************************************************************************)
(* The same constants for any template arguments: tp is a record of        *)
(* sizeof(T), alignof(T) and Size                                          *)
(***************************************************************************)
Inst(sT, aT, S) == [sizeofT |-> sT, alignofT |-> aT, S |-> S]

\* the instantiation whose operations are modelled
ThisInstance == Inst(SizeofT, 1, Size)

RoundUp(n, a) == ((n + a - 1) \div a) * a

IndexBytesOf(tp) == IndexBytes(tp.S)

\* conversion to index_type; the values of the model are below 2^31, so the
\* conversion to a 4- or 8-byte index_type leaves them as they are
Trunc(x, w) == IF w >= 4 THEN x ELSE x % (2 ^ (8 * w))

\* alignof(Element): the stricter of its two members
AlignofElementOf(tp) == Max(tp.alignofT, IndexBytesOf(tp))

\* sizeof(Element): the larger member, rounded up to the alignment
ElementSizeOf(tp) == RoundUp(Max(tp.sizeofT, IndexBytesOf(tp)), AlignofElementOf(tp))

IndexCountOf(tp) == Trunc(tp.S \div ElementSizeOf(tp), IndexBytesOf(tp))

\* sizeof and alignof of std::atomic<ControlFlags>: four index_type fields,
\* aligned to their total size (4, 8 or 16 bytes)
SizeofControlOf(tp) == 4 * IndexBytesOf(tp)
AlignofControlOf(tp) == 4 * IndexBytesOf(tp)

\* the header slots rounded down instead of up
ElementOverheadFloor(tp) ==
    Trunc(SizeofControlOf(tp) \div ElementSizeOf(tp), IndexBytesOf(tp))

\* kElementOverheadCount: the slots the control word covers, rounded up
ElementOverheadOf(tp) ==
    Trunc((SizeofControlOf(tp) + ElementSizeOf(tp) - 1) \div ElementSizeOf(tp),
          IndexBytesOf(tp))

MaxSizeOf(tp) == IndexCountOf(tp) - ElementOverheadOf(tp)

\* the four static_asserts "Size must be a multiple of 4 / 8 / 16 / 32", one for
\* each sizeof(index_type) k
StaticAssertMultiple(tp, k) ==
    \/ AlignofControlOf(tp) < tp.sizeofT
    \/ tp.S % AlignofControlOf(tp) = 0
    \/ IndexBytesOf(tp) # k

\* static_assert "Size must be a multiple of alignof(T)"
StaticAssertAlign(tp) ==
    AlignofControlOf(tp) >= tp.sizeofT \/ tp.S % tp.alignofT = 0

\* static_assert "FreeList is too small to contain an element"
StaticAssertRoom(tp) == IndexCountOf(tp) > ElementOverheadOf(tp)

\* the instantiation compiles
Accepted(tp) ==
    /\ \A k \in {1, 2, 4, 8} : StaticAssertMultiple(tp, k)
    /\ StaticAssertAlign(tp)
    /\ StaticAssertRoom(tp)

\* sizeof(FreeList): its one member, the union of the control word and the
\* element array, rounded up to the union's alignment
SizeofFreeList(tp) ==
    RoundUp(Max(SizeofControlOf(tp), IndexCountOf(tp) * ElementSizeOf(tp)),
            Max(AlignofControlOf(tp), AlignofElementOf(tp)))

(***************************************************************************)
(* Bounds of the exploration                                               *)
(***************************************************************************)
NThreads == 2
MaxOps == 4
MaxSeqOps == 9
ScriptLen == 263
MaxMisuseOps == 4
MaxRefs == 2

Threads == 1 .. NThreads

\* values a caller stores in an element
DataValues == {5, 9}

\* an element cell that was never written
Uninit == -1

(***************************************************************************)
(* State                                                                   *)
(***************************************************************************)
VARIABLES
    control,    \* data.control: the atomic ControlFlags word
    elements,   \* data.elements[i] for the slots: the byte the cell holds
    pc,         \* per thread: position inside the operation it runs
    op,         \* per thread: the public operation it runs
    currFlags,  \* per thread: local currFlags
    newFlags,   \* per thread: local newFlags
    index,      \* per thread: local index (push_index result / pop_index argument)
    arg,        \* per thread: constructor argument and whether the constructor throws
    ret,        \* per thread: how its last operation returned
    pre,        \* per thread: the control word at its call (sequential harness)
    held,       \* per thread: the slots whose pointer / index the caller holds
    live,       \* per slot: hand-outs by push_index not yet matched by a completed pop_index
    obj,        \* per slot: whether a constructed T lives in it
    expect,     \* per thread and slot: the value the thread stored in a slot it holds
    overDemand, \* more slots were requested at once than max_size
    leaked,     \* a constructed T was overwritten or dropped without its destructor
    badDtor,    \* a destructor ran on a slot holding no constructed T
    aborted,    \* an assert of the code failed
    mode,       \* the client harness: "seq", "free", "litmus", "finalise", "misuse" or "layout"
    calls,      \* per thread: calls made so far
    tparams,    \* the template arguments: sizeof(T), alignof(T) and Size
    handle,     \* per slot: the smart pointers that own the element in it
    probe       \* the outcome of the last compile-time or addressing computation

vars == <<control, elements, pc, op, currFlags, newFlags, index, arg, ret, pre,
          held, live, obj, expect, overDemand, leaked, badDtor, aborted, mode,
          calls, tparams, probe, handle>>

threadVars == <<pc, op, currFlags, newFlags, index, arg, ret, pre, held, calls>>

\* the smart pointers on an element: their kind and how many there are
Handle(k, n) == [kind |-> k, refs |-> n]

NoHandle == Handle("none", 0)

\* the operations that run alloc: alloc itself, and make_unique and make_shared
AllocOps == {"alloc", "make_unique", "make_shared"}

Flags(n, c, f, t) == [next |-> n, count |-> c, free |-> f, tag |-> t]

NoFlags == Flags(0, 0, 0, 0)

NoArg == [v |-> 0, throws |-> FALSE]

\* FreeList::FreeList()
InitialFlags == Flags(kElementOverheadCount, 0, 0, 0)

InitPool ==
    /\ control = InitialFlags
    /\ elements = [i \in Slots |-> Uninit]
    /\ pc = [t \in Threads |-> "idle"]
    /\ op = [t \in Threads |-> "none"]
    /\ currFlags = [t \in Threads |-> NoFlags]
    /\ newFlags = [t \in Threads |-> NoFlags]
    /\ index = [t \in Threads |-> 0]
    /\ arg = [t \in Threads |-> NoArg]
    /\ ret = [t \in Threads |-> "none"]
    /\ pre = [t \in Threads |-> NoFlags]
    /\ held = [t \in Threads |-> {}]
    /\ live = [i \in Slots |-> 0]
    /\ obj = [i \in Slots |-> FALSE]
    /\ expect = [t \in Threads |-> [i \in Slots |-> Uninit]]
    /\ overDemand = FALSE
    /\ leaked = FALSE
    /\ badDtor = FALSE
    /\ aborted = FALSE
    /\ calls = [t \in Threads |-> 0]
    /\ handle = [i \in Slots |-> NoHandle]

(***************************************************************************)
(* The client harness: which call a thread may make next                   *)
(***************************************************************************)
Call(o, i, v, th) == [op |-> o, slot |-> i, v |-> v, throws |-> th]

\* The fixed client programs of the "litmus" harness.  Thread 1 makes two
\* allocs, storing 9.  Thread 2 stores 5: it allocates three elements, frees the
\* second and the first, allocates two again, frees the third and the first,
\* then allocates and frees the first slot in turn until the tag has gone once
\* round index_type, and ends with allocs.
LoopEnd == 9 + (IndexMod - 4)

Script(t, k) ==
    IF t = 1 THEN Call("alloc", 0, 9, FALSE)
    ELSE IF k \in {1, 2, 3, 6, 7} THEN Call("alloc", 0, 5, FALSE)
    ELSE IF k = 4 THEN Call("free", kElementOverheadCount + 1, 0, FALSE)
    ELSE IF k = 8 THEN Call("free", kElementOverheadCount + 2, 0, FALSE)
    ELSE IF k \in {5, 9} THEN Call("free", kElementOverheadCount, 0, FALSE)
    ELSE IF k > LoopEnd \/ k % 2 = 0 THEN Call("alloc", 0, 5, FALSE)
    ELSE Call("free", kElementOverheadCount, 0, FALSE)

\* the same programs, but thread 2 frees its second slot once its loop is over,
\* and when both threads are done it goes on allocating, once for every value of
\* index_type
ScriptFinalise(t, k) ==
    IF t = 2 /\ k = LoopEnd + 1 THEN Call("free", kElementOverheadCount + 1, 0, FALSE)
    ELSE Script(t, k)

ScriptLenOf(t) == IF t = 1 THEN 2 ELSE IF t = 2 THEN ScriptLen ELSE 0

\* every thread has made the calls of its program and returned from the last
Joined == \A u \in Threads : calls[u] >= ScriptLenOf(u) /\ pc[u] = "idle"

RECURSIVE SumCalls(_)
SumCalls(n) == IF n = 0 THEN 0 ELSE calls[n] + SumCalls(n - 1)

TotalCalls == SumCalls(NThreads)

MayCall(t, c) ==
    CASE mode = "seq" -> t = 1 /\ calls[1] < MaxSeqOps
      [] mode = "free" -> TotalCalls < MaxOps
      [] mode = "litmus" -> calls[t] < ScriptLenOf(t) /\ c = Script(t, calls[t] + 1)
      [] mode = "misuse" -> t = 1 /\ calls[1] < MaxMisuseOps
      [] mode = "finalise" -> \/ /\ calls[t] < ScriptLenOf(t)
                                 /\ c = ScriptFinalise(t, calls[t] + 1)
                              \/ /\ t = 2 /\ Joined
                                 /\ calls[t] < ScriptLenOf(t) + IndexMod
                                 /\ c = Call("alloc", 0, 5, FALSE)
      [] OTHER -> FALSE

\* the sequential harness records the control word at each call, to compare it
\* with the control word at the return
Recorded == IF mode = "seq" THEN control ELSE NoFlags

Counted(t) ==
    calls' = [calls EXCEPT ![t] = @ + 1]

(***************************************************************************)
(* Element cells                                                           *)
(***************************************************************************)
\* what a read of a cell through Element::index can yield: the low bytes of the
\* value stored, or any value of index_type when the cell was never written
IndexReadings(cell) == IF cell = Uninit THEN 0 .. (IndexMod - 1) ELSE {cell % IndexMod}

\* a write through Element::index: the low bytes of the cell are replaced
WriteIndex(cell, link) ==
    IF cell = Uninit THEN link ELSE (cell \div IndexMod) * IndexMod + link

Inc(x) == (x + 1) % IndexMod
Dec(x) == (x + IndexMod - 1) % IndexMod

\* the asserts of get(index) and pop_index(index)
InRange(i) == i >= kElementOverheadCount /\ i < kIndexCount

(***************************************************************************)
(* Return to the caller                                                    *)
(***************************************************************************)
Return(t, r) ==
    /\ pc' = [pc EXCEPT ![t] = "idle"]
    /\ op' = [op EXCEPT ![t] = "none"]
    /\ currFlags' = [currFlags EXCEPT ![t] = NoFlags]
    /\ newFlags' = [newFlags EXCEPT ![t] = NoFlags]
    /\ index' = [index EXCEPT ![t] = 0]
    /\ arg' = [arg EXCEPT ![t] = NoArg]
    /\ pre' = [pre EXCEPT ![t] = NoFlags]
    /\ ret' = [ret EXCEPT ![t] = r]

\* a failed assert ends the program
Abort ==
    /\ aborted' = TRUE
    /\ UNCHANGED <<control, elements, threadVars, live, obj, expect, overDemand, leaked, badDtor, mode, handle, tparams, probe>>

(***************************************************************************)
(* push_index                                                              *)
(***************************************************************************)
\* the slots the callers hold or have asked for
RECURSIVE SumRequested(_)
SumRequested(n) ==
    IF n = 0 THEN 0
    ELSE Cardinality(held[n])
         + (IF pc[n] \in {"push_top", "push_cas", "ctor"} THEN 1 ELSE 0)
         + SumRequested(n - 1)

Requested == SumRequested(NThreads)

\* entry of push_index: ControlFlags currFlags = data.control.load()
EnterPush(t, o, a) ==
    /\ op' = [op EXCEPT ![t] = o]
    /\ arg' = [arg EXCEPT ![t] = a]
    /\ currFlags' = [currFlags EXCEPT ![t] = control]
    /\ pre' = [pre EXCEPT ![t] = Recorded]
    /\ ret' = [ret EXCEPT ![t] = "none"]
    /\ pc' = [pc EXCEPT ![t] = "push_top"]
    /\ overDemand' = (overDemand \/ Requested >= max_size)
    /\ UNCHANGED <<control, elements, newFlags, index, held, live, obj, expect,
                   leaked, badDtor, aborted, mode, handle, tparams, probe>>

\* alloc(args...) called: push_index() entered
AllocCall(t, v, th) ==
    /\ ~aborted /\ pc[t] = "idle"
    /\ MayCall(t, Call("alloc", 0, v, th))
    /\ Counted(t)
    /\ EnterPush(t, "alloc", [v |-> v, throws |-> th])

\* push_index() called directly
PushIndexCall(t) ==
    /\ ~aborted /\ pc[t] = "idle"
    /\ MayCall(t, Call("push_index", 0, 0, FALSE))
    /\ Counted(t)
    /\ EnterPush(t, "push_index", NoArg)

\* newFlags of Case A, given the successor link read from the slot
PushFlagsFree(c, succ) ==
    [c EXCEPT !.free = succ, !.tag = Inc(c.tag), !.count = Inc(c.count)]

\* newFlags of Case B
PushFlagsNext(c) ==
    [c EXCEPT !.next = c.next + 1, !.count = Inc(c.count)]

\* Case B with the last slot of the array left out
FrontierOpenShort(c) == c.next + 1 < kIndexCount

\* the test of Case B: slots beyond the frontier remain
FrontierOpen(c) == c.next < kIndexCount

\* Case C: push_index returns 0 on the control word c
Exhausted(c) == c.free = 0 /\ ~FrontierOpen(c)

\* the index a successful push_index returns
PushResult(c) == IF c.free # 0 THEN c.free ELSE c.next

\* top of the do-loop of push_index: build newFlags, or return 0
PushTop(t) ==
    /\ ~aborted /\ pc[t] = "push_top"
    /\ LET c == currFlags[t] IN
       IF c.free # 0 THEN
            IF ~InRange(c.free) THEN Abort
            ELSE /\ \E succ \in IndexReadings(elements[c.free]) :
                       newFlags' = [newFlags EXCEPT ![t] = PushFlagsFree(c, succ)]
                 /\ pc' = [pc EXCEPT ![t] = "push_cas"]
                 /\ UNCHANGED <<control, elements, op, currFlags, index, arg, ret, pre,
                                held, live, obj, expect, overDemand, leaked, badDtor, aborted,
                                mode, handle, tparams, probe, calls>>
       ELSE IF FrontierOpen(c) THEN
            /\ newFlags' = [newFlags EXCEPT ![t] = PushFlagsNext(c)]
            /\ pc' = [pc EXCEPT ![t] = "push_cas"]
            /\ UNCHANGED <<control, elements, op, currFlags, index, arg, ret, pre,
                           held, live, obj, expect, overDemand, leaked, badDtor, aborted,
                           mode, handle, tparams, probe, calls>>
       ELSE
            /\ Return(t, IF op[t] \in AllocOps \cup {"allocate"} THEN "bad_alloc" ELSE "zero")
            /\ UNCHANGED <<control, elements, held, live, obj, expect, overDemand, leaked,
                           badDtor, aborted, mode, handle, tparams, probe, calls>>

\* a failed compare-exchange that leaves its expected argument as it was
ObservedStale(c, expected) == expected

\* a failed compare_exchange_strong stores the control word it found into its
\* expected argument, currFlags
Observed(c, expected) == c

HandOut(i) == [live EXCEPT ![i] = IF @ >= 2 THEN 2 ELSE @ + 1]

\* data.control.compare_exchange_strong(currFlags, newFlags) of push_index
PushCAS(t) ==
    /\ ~aborted /\ pc[t] = "push_cas"
    /\ IF control = currFlags[t] THEN
            LET i == PushResult(currFlags[t]) IN
            /\ control' = newFlags[t]
            /\ live' = IF i \in Slots THEN HandOut(i) ELSE live
            /\ IF op[t] \in {"push_index", "allocate"} THEN
                    /\ Return(t, IF op[t] = "push_index" THEN "index" ELSE "pointer")
                    /\ held' = [held EXCEPT ![t] = @ \cup {i}]
               ELSE /\ index' = [index EXCEPT ![t] = i]
                    /\ pc' = [pc EXCEPT ![t] = "ctor"]
                    /\ UNCHANGED <<op, currFlags, newFlags, arg, ret, pre, held>>
            /\ UNCHANGED <<elements, obj, expect, overDemand, leaked, badDtor, aborted, mode, handle, tparams, probe, calls>>
       ELSE
            /\ currFlags' = [currFlags EXCEPT ![t] = Observed(control, currFlags[t])]
            /\ newFlags' = [newFlags EXCEPT ![t] = NoFlags]
            /\ pc' = [pc EXCEPT ![t] = "push_top"]
            /\ UNCHANGED <<control, elements, op, index, arg, ret, pre,
                           held, live, obj, expect, overDemand, leaked, badDtor, aborted,
                           mode, handle, tparams, probe, calls>>

(***************************************************************************)
(* alloc: placement-new, and the rollback when the constructor throws      *)
(***************************************************************************)
\* entry of pop_index(index): the asserts, then data.control.load()
EnterPop(t, i) ==
    /\ index' = [index EXCEPT ![t] = i]
    /\ currFlags' = [currFlags EXCEPT ![t] = control]
    /\ pc' = [pc EXCEPT ![t] = "pop_top"]

\* what holds the pointer alloc returned: the caller, or the UniquePtr of
\* make_unique, or the shared_ptr make_shared converts that UniquePtr to
Wrapped(o) ==
    IF o = "make_unique" THEN Handle("unique", 1)
    ELSE IF o = "make_shared" THEN Handle("shared", 1)
    ELSE NoHandle

Ctor(t) ==
    /\ ~aborted /\ pc[t] = "ctor"
    /\ LET i == index[t] IN
       IF ~InRange(i) THEN Abort
       ELSE IF arg[t].throws THEN
            /\ EnterPop(t, i)
            /\ UNCHANGED <<control, elements, op, newFlags, arg, ret, pre, held, live,
                           obj, expect, overDemand, leaked, badDtor, aborted, mode, handle, tparams, probe, calls>>
       ELSE
            /\ elements' = [elements EXCEPT ![i] = arg[t].v]
            /\ obj' = [obj EXCEPT ![i] = TRUE]
            /\ leaked' = (leaked \/ obj[i])
            /\ expect' = [expect EXCEPT ![t][i] = arg[t].v]
            /\ held' = [held EXCEPT ![t] = @ \cup {i}]
            /\ handle' = [handle EXCEPT ![i] = Wrapped(op[t])]
            /\ Return(t, "ok")
            /\ UNCHANGED <<control, live, overDemand, badDtor, aborted, mode, tparams, probe, calls>>

(***************************************************************************)
(* free and pop_index                                                      *)
(***************************************************************************)
\* free(item) called on a pointer the caller got from alloc: item->~T(),
\* index(item), then pop_index entered
FreeCall(t, i) ==
    /\ ~aborted /\ pc[t] = "idle"
    /\ i \in held[t] /\ obj[i]
    /\ MayCall(t, Call("free", i, 0, FALSE))
    /\ Counted(t)
    /\ obj' = [obj EXCEPT ![i] = FALSE]
    /\ badDtor' = (badDtor \/ ~obj[i])
    /\ expect' = [expect EXCEPT ![t][i] = Uninit]
    /\ held' = [held EXCEPT ![t] = @ \ {i}]
    /\ op' = [op EXCEPT ![t] = "free"]
    /\ pre' = [pre EXCEPT ![t] = Recorded]
    /\ ret' = [ret EXCEPT ![t] = "none"]
    /\ EnterPop(t, i)
    /\ UNCHANGED <<control, elements, newFlags, arg, live, overDemand, leaked,
                   aborted, mode, handle, tparams, probe>>

\* free(item) with the destructor as a step of its own. The call: assert(item)
\* passes and item->~T() begins
FreeBegin(t, i) ==
    /\ ~aborted /\ pc[t] = "idle"
    /\ i \in held[t] /\ obj[i]
    /\ MayCall(t, Call("free", i, 0, FALSE))
    /\ Counted(t)
    /\ held' = [held EXCEPT ![t] = @ \ {i}]
    /\ op' = [op EXCEPT ![t] = "free"]
    /\ index' = [index EXCEPT ![t] = i]
    /\ pre' = [pre EXCEPT ![t] = Recorded]
    /\ ret' = [ret EXCEPT ![t] = "none"]
    /\ pc' = [pc EXCEPT ![t] = "dtor"]
    /\ UNCHANGED <<control, elements, currFlags, newFlags, arg, live, obj, expect,
                   overDemand, leaked, badDtor, aborted, mode, handle, tparams, probe>>

\* item->~T() ends, and pop_index(index(item)) is entered
Dtor(t) ==
    /\ ~aborted /\ pc[t] = "dtor"
    /\ LET i == index[t] IN
       /\ obj' = [obj EXCEPT ![i] = FALSE]
       /\ badDtor' = (badDtor \/ ~obj[i])
       /\ expect' = [expect EXCEPT ![t][i] = Uninit]
       /\ EnterPop(t, i)
    /\ UNCHANGED <<control, elements, op, newFlags, arg, ret, pre, held, live,
                   overDemand, leaked, aborted, mode, handle, tparams, probe, calls>>

\* pop_index(index) called directly on an index the caller got from push_index
PopIndexCall(t, i) ==
    /\ ~aborted /\ pc[t] = "idle"
    /\ i \in held[t] /\ ~obj[i]
    /\ MayCall(t, Call("pop_index", i, 0, FALSE))
    /\ Counted(t)
    /\ held' = [held EXCEPT ![t] = @ \ {i}]
    /\ op' = [op EXCEPT ![t] = "pop_index"]
    /\ pre' = [pre EXCEPT ![t] = Recorded]
    /\ ret' = [ret EXCEPT ![t] = "none"]
    /\ EnterPop(t, i)
    /\ UNCHANGED <<control, elements, newFlags, arg, live, obj, expect, overDemand, leaked,
                   badDtor, aborted, mode, handle, tparams, probe>>

\* pop_index giving the last slot below the frontier back to the frontier
PopFlagsShrink(c, i) ==
    IF i + 1 = c.next
    THEN [next |-> i, count |-> Dec(c.count), free |-> c.free, tag |-> Inc(c.tag)]
    ELSE [next |-> c.next, count |-> Dec(c.count), free |-> i, tag |-> Inc(c.tag)]

\* pop_index without the increment of the tag
PopFlagsSameTag(c, i) == [next |-> c.next, count |-> Dec(c.count), free |-> i, tag |-> c.tag]

\* pop_index without the decrement of count
PopFlagsKeepCount(c, i) == [next |-> c.next, count |-> c.count, free |-> i, tag |-> Inc(c.tag)]

\* newFlags of pop_index
PopFlags(c, i) ==
    [c EXCEPT !.free = i, !.tag = Inc(c.tag), !.count = Dec(c.count)]

\* the link written into the first slot instead of the freed one
FreedElementFirst(i) == kElementOverheadCount

\* the slot pop_index writes the old head into (freedElement)
FreedElement(i) == i

\* body of the do-loop of pop_index: freedElement = currFlags.free, newFlags built
PopTop(t) ==
    /\ ~aborted /\ pc[t] = "pop_top"
    /\ elements' = [elements EXCEPT ![FreedElement(index[t])] =
                                      WriteIndex(@, currFlags[t].free)]
    /\ newFlags' = [newFlags EXCEPT ![t] = PopFlags(currFlags[t], index[t])]
    /\ pc' = [pc EXCEPT ![t] = "pop_cas"]
    /\ UNCHANGED <<control, op, currFlags, index, arg, ret, pre, held, live, obj,
                   expect, overDemand, leaked, badDtor, aborted, mode, handle, tparams, probe, calls>>

Release(i) == [live EXCEPT ![i] = IF @ = 0 THEN 0 ELSE @ - 1]

\* data.control.compare_exchange_strong(currFlags, newFlags) of pop_index
PopCAS(t) ==
    /\ ~aborted /\ pc[t] = "pop_cas"
    /\ IF control = currFlags[t] THEN
            /\ control' = newFlags[t]
            /\ live' = Release(index[t])
            /\ Return(t, IF op[t] \in AllocOps THEN "ctor_exc" ELSE "ok")
            /\ UNCHANGED <<elements, held, obj, expect, overDemand, leaked, badDtor, aborted,
                           mode, handle, tparams, probe, calls>>
       ELSE
            /\ currFlags' = [currFlags EXCEPT ![t] = Observed(control, currFlags[t])]
            /\ newFlags' = [newFlags EXCEPT ![t] = NoFlags]
            /\ pc' = [pc EXCEPT ![t] = "pop_top"]
            /\ UNCHANGED <<control, elements, op, index, arg, ret, pre,
                           held, live, obj, expect, overDemand, leaked, badDtor, aborted,
                           mode, handle, tparams, probe, calls>>

(***************************************************************************)
(* size, empty, full: one load of the control word                         *)
(***************************************************************************)
size == control.count
empty == control.count = 0
full == control.count >= max_size

(***************************************************************************)
(* clear                                                                   *)
(***************************************************************************)
\* the while-loop of clear: the slots reached from f through the in-slot links,
\* within fuel steps; ok is FALSE when the walk leaves the slots, reads a cell
\* never written, or does not end
RECURSIVE WalkFree(_, _, _, _)
WalkFree(f, e, marked, fuel) ==
    IF f = 0 THEN [ok |-> TRUE, marked |-> marked]
    ELSE IF fuel = 0 \/ f \notin Slots THEN [ok |-> FALSE, marked |-> marked]
    ELSE IF e[f] = Uninit THEN [ok |-> FALSE, marked |-> marked]
    ELSE WalkFree(e[f] % IndexMod, e, marked \cup {f}, fuel - 1)

\* clear finalising every slot below the frontier, free-listed ones included
DestroyedAll(c, itemIsFree) == {i \in Slots : i < c.next}

\* the slots clear calls ~T() on: those below next that the walk did not mark
Destroyed(c, itemIsFree) ==
    {i \in Slots : i < c.next /\ i \notin itemIsFree}

\* the body of clear(), run while no other operation runs; the callers drop
\* their pointers
Sweep ==
    /\ ~aborted
    /\ \A t \in Threads : pc[t] = "idle"
    /\ LET w == WalkFree(control.free, elements, {}, kIndexCount) IN
       IF ~w.ok THEN Abort
       ELSE LET d == Destroyed(control, w.marked) IN
            /\ obj' = [i \in Slots |-> IF i \in d THEN FALSE ELSE obj[i]]
            /\ badDtor' = (badDtor \/ \E i \in d : ~obj[i])
            /\ leaked' = (leaked \/ \E i \in Slots \ d : obj[i])
            /\ control' = InitialFlags
            /\ held' = [t \in Threads |-> {}]
            /\ live' = [i \in Slots |-> 0]
            /\ expect' = [t \in Threads |-> [i \in Slots |-> Uninit]]
            /\ ret' = [t \in Threads |-> "none"]
            /\ UNCHANGED <<elements, pc, op, currFlags, newFlags, index, arg, pre,
                           overDemand, aborted, mode, handle, tparams, probe, calls>>

\* clear() called by a client that chooses its calls
Clear == mode # "litmus" /\ Sweep

\* ~FreeList(), once the threads of the fixed client programs have made all
\* their calls: clear()
Destroy ==
    /\ mode = "litmus"
    /\ \A t \in Threads : calls[t] = ScriptLenOf(t)
    /\ Sweep

(***************************************************************************)
(* Instantiating the template, and addressing: get and index               *)
(***************************************************************************)
\* the element types (sizeof, alignof) and the sizes Size explored
TypeShapes ==
    {<<sT, aT>> \in {1, 2, 3, 4, 7, 8, 12, 16, 24} \X {1, 2, 4, 8} : sT % aT = 0}

PoolSizes == {8, 16, 30, 100, 255, 256, 264, 512, 8000, 131071, 131072, 131088}

Instantiations == {Inst(sh[1], sh[2], S) : sh \in TypeShapes, S \in PoolSizes}

\* the address of the pool object (this), and the null pointer
This == 4096
Null == 0

Probe(k, a, viol, val) == [kind |-> k, arg |-> a, violation |-> viol, value |-> val]

NoProbe == Probe("none", 0, FALSE, 0)

\* get(index): the two asserts, then &data.elements[index].data
get(tp, i) ==
    IF ~(i >= ElementOverheadOf(tp)) \/ ~(i < IndexCountOf(tp))
    THEN Probe("get", i, TRUE, 0)
    ELSE Probe("get", i, FALSE, This + i * ElementSizeOf(tp))

\* the byte offset divided by sizeof(T) instead of sizeof(Element)
ItemIndexBySizeofT(tp, p) == Trunc((p - This) \div tp.sizeofT, IndexBytesOf(tp))

\* the Element pointer difference of index(item), converted to index_type
ItemIndex(tp, p) == Trunc((p - This) \div ElementSizeOf(tp), IndexBytesOf(tp))

\* index(item): the asserts on the pointer, the difference, the assert on it
IndexOfItem(tp, p) ==
    IF p = Null \/ ~(p >= This) \/ (p - This) % ElementSizeOf(tp) # 0
    THEN Probe("index", p, TRUE, 0)
    ELSE IF ~(ItemIndex(tp, p) < IndexCountOf(tp)) THEN Probe("index", p, TRUE, 0)
    ELSE Probe("index", p, FALSE, ItemIndex(tp, p))

\* the template is instantiated: the static_asserts are evaluated, and the
\* object's size is fixed
Instantiate ==
    /\ mode = "layout" /\ probe.kind = "none"
    /\ probe' = Probe("instance", IndexBytesOf(tparams), ~Accepted(tparams),
                       SizeofFreeList(tparams))
    /\ UNCHANGED <<control, elements, threadVars, live, obj, expect, overDemand,
                   leaked, badDtor, aborted, mode, handle, tparams>>

\* capacity() of the instantiated pool
CapacityCall ==
    /\ mode = "layout" /\ probe.kind = "instance" /\ ~probe.violation
    /\ probe' = Probe("capacity", 0, FALSE, MaxSizeOf(tparams))
    /\ UNCHANGED <<control, elements, threadVars, live, obj, expect, overDemand,
                   leaked, badDtor, aborted, mode, handle, tparams>>

\* the indexes get is called with: around both ends of the slots
ProbedIndexes(tp) ==
    {i \in {0, ElementOverheadOf(tp) - 1, ElementOverheadOf(tp), ElementOverheadOf(tp) + 1,
            IndexCountOf(tp) - 1, IndexCountOf(tp), IndexCountOf(tp) + 1} : i >= 0}

\* get(i) called on the instantiated pool
GetCall(i) ==
    /\ mode = "layout" /\ probe.kind = "instance" /\ ~probe.violation
    /\ probe' = get(tparams, i)
    /\ UNCHANGED <<control, elements, threadVars, live, obj, expect, overDemand,
                   leaked, badDtor, aborted, mode, handle, tparams>>

\* index(p) called with the pointer that get has returned
IndexCall ==
    /\ mode = "layout" /\ probe.kind = "get" /\ ~probe.violation
    /\ probe' = IndexOfItem(tparams, probe.value)
    /\ UNCHANGED <<control, elements, threadVars, live, obj, expect, overDemand,
                   leaked, badDtor, aborted, mode, handle, tparams>>

\* get(i) called with the index that index has returned
GetBackCall ==
    /\ mode = "layout" /\ probe.kind = "index" /\ ~probe.violation
    /\ probe' = [get(tparams, probe.value) EXCEPT !.kind = "get_back", !.arg = probe.arg]
    /\ UNCHANGED <<control, elements, threadVars, live, obj, expect, overDemand,
                   leaked, badDtor, aborted, mode, handle, tparams>>

(***************************************************************************)
(* free and pop_index called with any pointer and any index                *)
(***************************************************************************)
\* the pointers a caller passes to free: null, one below the object, its first
\* byte, its slots, one past its end and beyond, and a pointer whose element
\* difference is one round of index_type past the first slot
AnyPointers ==
    {Null, This - 1, This, This + Size, This + Size + 1,
     This + (IndexMod + kElementOverheadCount) * kElementSize}
        \cup {This + i * kElementSize : i \in Slots}

AnyIndexes == 0 .. (kIndexCount + 1)

\* the slots whose element lies at p
SlotsAt(p) == {i \in Slots : This + i * kElementSize = p}

\* free(item) with any pointer: assert(item), item->~T(), index(item) with its
\* asserts, pop_index with its asserts and its load of the control word
FreeItem(t, p) ==
    /\ ~aborted /\ pc[t] = "idle"
    /\ MayCall(t, Call("free", p, 0, FALSE))
    /\ Counted(t)
    /\ LET ix == IndexOfItem(tparams, p) IN
       IF p = Null THEN
            /\ aborted' = TRUE
            /\ probe' = Probe("free", p, TRUE, calls[t] + 1)
            /\ UNCHANGED <<control, elements, pc, op, currFlags, newFlags, index, arg, ret,
                           pre, held, live, obj, expect, overDemand, leaked, badDtor,
                           mode, handle, tparams>>
       ELSE
            /\ obj' = [i \in Slots |-> IF i \in SlotsAt(p) THEN FALSE ELSE obj[i]]
            /\ badDtor' = (badDtor \/ SlotsAt(p) = {} \/ \E i \in SlotsAt(p) : ~obj[i])
            /\ IF ix.violation \/ ~InRange(ix.value) THEN
                    /\ aborted' = TRUE
                    /\ probe' = Probe("free", p, TRUE, calls[t] + 1)
                    /\ UNCHANGED <<control, elements, pc, op, currFlags, newFlags, index,
                                   arg, ret, pre, held, live, expect, overDemand, leaked,
                                   mode, handle, tparams>>
               ELSE
                    /\ probe' = Probe("free", p, FALSE, calls[t] + 1)
                    /\ expect' = [expect EXCEPT ![t][ix.value] = Uninit]
                    /\ held' = [held EXCEPT ![t] = @ \ {ix.value}]
                    /\ op' = [op EXCEPT ![t] = "free"]
                    /\ pre' = [pre EXCEPT ![t] = Recorded]
                    /\ ret' = [ret EXCEPT ![t] = "none"]
                    /\ EnterPop(t, ix.value)
                    /\ UNCHANGED <<control, elements, newFlags, arg, live, overDemand,
                                   leaked, aborted, mode, handle, tparams>>

\* pop_index(index) with any index: the two asserts, then the load
PopIndexAny(t, i) ==
    /\ ~aborted /\ pc[t] = "idle"
    /\ MayCall(t, Call("pop_index", i, 0, FALSE))
    /\ Counted(t)
    /\ IF ~InRange(i) THEN
            /\ aborted' = TRUE
            /\ probe' = Probe("pop_index", i, TRUE, calls[t] + 1)
            /\ UNCHANGED <<control, elements, pc, op, currFlags, newFlags, index, arg, ret,
                           pre, held, live, obj, expect, overDemand, leaked, badDtor,
                           mode, handle, tparams>>
       ELSE
            /\ probe' = Probe("pop_index", i, FALSE, calls[t] + 1)
            /\ held' = [held EXCEPT ![t] = @ \ {i}]
            /\ op' = [op EXCEPT ![t] = "pop_index"]
            /\ pre' = [pre EXCEPT ![t] = Recorded]
            /\ ret' = [ret EXCEPT ![t] = "none"]
            /\ EnterPop(t, i)
            /\ UNCHANGED <<control, elements, newFlags, arg, live, obj, expect, overDemand,
                           leaked, badDtor, aborted, mode, handle, tparams>>

(***************************************************************************)
(* FreeListAllocator: allocate and deallocate                              *)
(***************************************************************************)
\* allocate serving any positive number of elements
AnyCount(n) == n >= 1

\* the test of allocate: only single elements are served
SingleElement(n) == n = 1

\* the numbers of elements asked of allocate
AllocateCounts == {0, 1, 2}

\* allocate(n): std::bad_alloc unless n is 1, else parent.push_index() entered;
\* its index, when not 0, is returned as parent.get(index)
AllocateCall(t, n) ==
    /\ ~aborted /\ pc[t] = "idle"
    /\ MayCall(t, Call("allocate", n, 0, FALSE))
    /\ Counted(t)
    /\ probe' = Probe("allocate", n, FALSE, calls[t] + 1)
    /\ IF ~SingleElement(n) THEN
            /\ ret' = [ret EXCEPT ![t] = "bad_alloc"]
            /\ UNCHANGED <<control, elements, pc, op, currFlags, newFlags, index, arg, pre,
                           held, live, obj, expect, overDemand, leaked, badDtor, aborted,
                           mode, handle, tparams>>
       ELSE
            /\ op' = [op EXCEPT ![t] = "allocate"]
            /\ arg' = [arg EXCEPT ![t] = NoArg]
            /\ currFlags' = [currFlags EXCEPT ![t] = control]
            /\ pre' = [pre EXCEPT ![t] = Recorded]
            /\ ret' = [ret EXCEPT ![t] = "none"]
            /\ pc' = [pc EXCEPT ![t] = "push_top"]
            /\ overDemand' = (overDemand \/ Requested >= max_size)
            /\ UNCHANGED <<control, elements, newFlags, index, held, live, obj, expect,
                           leaked, badDtor, aborted, mode, handle, tparams>>

\* deallocate(p, n) with a pointer allocate has returned:
\* parent.pop_index(parent.index(p)) entered
DeallocateCall(t, i) ==
    /\ ~aborted /\ pc[t] = "idle"
    /\ i \in held[t]
    /\ MayCall(t, Call("deallocate", i, 0, FALSE))
    /\ Counted(t)
    /\ LET p == get(tparams, i).value
           ix == IndexOfItem(tparams, p)
       IN
       /\ probe' = Probe("deallocate", p, ix.violation, calls[t] + 1)
       /\ IF ix.violation \/ ~InRange(ix.value) THEN
               /\ aborted' = TRUE
               /\ UNCHANGED <<control, elements, pc, op, currFlags, newFlags, index, arg,
                              ret, pre, held, live, obj, expect, overDemand, leaked,
                              badDtor, mode, handle, tparams>>
          ELSE
               /\ held' = [held EXCEPT ![t] = @ \ {i}]
               /\ op' = [op EXCEPT ![t] = "deallocate"]
               /\ pre' = [pre EXCEPT ![t] = Recorded]
               /\ ret' = [ret EXCEPT ![t] = "none"]
               /\ EnterPop(t, ix.value)
               /\ UNCHANGED <<control, elements, newFlags, arg, live, obj, expect,
                              overDemand, leaked, badDtor, aborted, mode, handle, tparams>>

(***************************************************************************)
(* make_unique and make_shared, and the smart pointers they return         *)
(***************************************************************************)
\* make_unique(args...) or make_shared(args...) called: alloc(args...) entered
MakeCall(t, o, v, th) ==
    /\ ~aborted /\ pc[t] = "idle"
    /\ o \in {"make_unique", "make_shared"}
    /\ MayCall(t, Call(o, 0, v, th))
    /\ Counted(t)
    /\ EnterPush(t, o, [v |-> v, throws |-> th])

\* a smart pointer that calls the deleter whenever it is dropped
AnyReference(h) == h.refs >= 1

\* the smart pointer dropped is the only one left on its element
LastReference(h) == h.refs = 1

\* a shared_ptr is copied
CopyHandle(t, i) ==
    /\ ~aborted /\ pc[t] = "idle"
    /\ i \in held[t]
    /\ handle[i].kind = "shared" /\ handle[i].refs < MaxRefs
    /\ handle' = [handle EXCEPT ![i].refs = @ + 1]
    /\ UNCHANGED <<control, elements, threadVars, live, obj, expect, overDemand,
                   leaked, badDtor, aborted, mode, tparams, probe>>

\* a smart pointer is dropped: the last one on its element calls the deleter,
\* which is free(item) of this pool
DropHandle(t, i) ==
    /\ ~aborted /\ pc[t] = "idle"
    /\ i \in held[t] /\ handle[i].refs >= 1
    /\ MayCall(t, Call("drop", i, 0, FALSE))
    /\ Counted(t)
    /\ IF LastReference(handle[i]) THEN
            /\ handle' = [handle EXCEPT ![i] = NoHandle]
            /\ obj' = [obj EXCEPT ![i] = FALSE]
            /\ badDtor' = (badDtor \/ ~obj[i])
            /\ expect' = [expect EXCEPT ![t][i] = Uninit]
            /\ held' = [held EXCEPT ![t] = @ \ {i}]
            /\ op' = [op EXCEPT ![t] = "free"]
            /\ pre' = [pre EXCEPT ![t] = Recorded]
            /\ ret' = [ret EXCEPT ![t] = "none"]
            /\ EnterPop(t, i)
            /\ UNCHANGED <<control, elements, newFlags, arg, live, overDemand, leaked,
                           aborted, mode, tparams, probe>>
       ELSE
            /\ handle' = [handle EXCEPT ![i].refs = @ - 1]
            /\ UNCHANGED <<control, elements, pc, op, currFlags, newFlags, index, arg,
                           ret, pre, held, live, obj, expect, overDemand, leaked,
                           badDtor, aborted, mode, tparams, probe>>

(***************************************************************************)
(* Specifications                                                          *)
(***************************************************************************)
\* several threads, making at most MaxOps calls of their choice in total
Init == InitPool /\ mode = "free" /\ tparams = ThisInstance /\ probe = NoProbe

\* one thread making any number of calls
InitSeq == InitPool /\ mode = "seq" /\ tparams = ThisInstance /\ probe = NoProbe

\* the fixed client programs of Script
InitWrap == InitPool /\ mode = "litmus" /\ tparams = ThisInstance /\ probe = NoProbe

Next ==
    \E t \in Threads :
        \/ \E v \in DataValues, th \in BOOLEAN : AllocCall(t, v, th)
        \/ PushIndexCall(t)
        \/ PushTop(t)
        \/ PushCAS(t)
        \/ Ctor(t)
        \/ \E i \in Slots : FreeCall(t, i)
        \/ \E i \in Slots : PopIndexCall(t, i)
        \/ PopTop(t)
        \/ PopCAS(t)
        \/ Clear

\* the calls of a client that uses alloc, free and clear only
NextAllocFree ==
    \E t \in Threads :
        \/ \E v \in DataValues, th \in BOOLEAN : AllocCall(t, v, th)
        \/ PushTop(t)
        \/ PushCAS(t)
        \/ Ctor(t)
        \/ \E i \in Slots : FreeCall(t, i)
        \/ PopTop(t)
        \/ PopCAS(t)
        \/ Clear

NextWrap ==
    \E t \in Threads :
        \/ \E v \in DataValues, th \in BOOLEAN : AllocCall(t, v, th)
        \/ PushTop(t)
        \/ PushCAS(t)
        \/ Ctor(t)
        \/ \E i \in Slots : FreeCall(t, i)
        \/ PopTop(t)
        \/ PopCAS(t)

\* one instantiation, any of Instantiations, and the calls of get and index on it
InitLayout ==
    /\ InitPool /\ mode = "layout"
    /\ tparams \in Instantiations
    /\ probe = NoProbe

NextLayout ==
    \/ Instantiate
    \/ CapacityCall
    \/ \E i \in ProbedIndexes(tparams) : GetCall(i)
    \/ IndexCall
    \/ GetBackCall

SpecLayout == InitLayout /\ [][NextLayout]_vars

\* one caller that passes any pointer to free and any index to pop_index
InitMisuse == InitPool /\ mode = "misuse" /\ tparams = ThisInstance /\ probe = NoProbe

NextMisuse ==
    \E t \in Threads :
        \/ \E v \in DataValues : AllocCall(t, v, FALSE)
        \/ PushIndexCall(t)
        \/ PushTop(t)
        \/ PushCAS(t)
        \/ Ctor(t)
        \/ \E p \in AnyPointers : FreeItem(t, p)
        \/ \E i \in AnyIndexes : PopIndexAny(t, i)
        \/ PopTop(t)
        \/ PopCAS(t)

SpecMisuse == InitMisuse /\ [][NextMisuse]_vars

\* one caller that uses the pool through its allocator
NextAllocator ==
    \E t \in Threads :
        \/ \E n \in AllocateCounts : AllocateCall(t, n)
        \/ PushTop(t)
        \/ PushCAS(t)
        \/ \E i \in Slots : DeallocateCall(t, i)
        \/ PopTop(t)
        \/ PopCAS(t)

SpecAllocator == InitSeq /\ [][NextAllocator]_vars

\* one caller that keeps its elements in smart pointers
NextHandles ==
    \E t \in Threads :
        \/ \E o \in {"make_unique", "make_shared"}, th \in BOOLEAN :
               MakeCall(t, o, 9, th)
        \/ PushTop(t)
        \/ PushCAS(t)
        \/ Ctor(t)
        \/ \E i \in Slots : CopyHandle(t, i)
        \/ \E i \in Slots : DropHandle(t, i)
        \/ PopTop(t)
        \/ PopCAS(t)

SpecHandles == InitSeq /\ [][NextHandles]_vars

\* the fixed client programs of ScriptFinalise, the destructor of free being a
\* step of its own
InitFinalise == InitPool /\ mode = "finalise" /\ tparams = ThisInstance /\ probe = NoProbe

NextFinalise ==
    \E t \in Threads :
        \/ \E v \in DataValues, th \in BOOLEAN : AllocCall(t, v, th)
        \/ PushTop(t)
        \/ PushCAS(t)
        \/ Ctor(t)
        \/ \E i \in Slots : FreeBegin(t, i)
        \/ Dtor(t)
        \/ PopTop(t)
        \/ PopCAS(t)

SpecFinalise == InitFinalise /\ [][NextFinalise]_vars

Spec == Init /\ [][Next]_vars

SpecSeq == InitSeq /\ [][Next]_vars

SpecAllocFree == InitSeq /\ [][NextAllocFree]_vars

SpecWrap == InitWrap /\ [][NextWrap]_vars

\* the fixed client programs, and the destruction of the pool after them
NextWrapEnd == NextWrap \/ Destroy

SpecWrapEnd == InitWrap /\ [][NextWrapEnd]_vars

\* the steps a thread takes inside a call it has made
Running(t) == PushTop(t) \/ PushCAS(t) \/ Ctor(t) \/ PopTop(t) \/ PopCAS(t)

\* Spec with every thread scheduled again and again while it is inside a call
SpecFair == Spec /\ \A t \in Threads : WF_vars(Running(t))

(***************************************************************************)
(* Claims                                                                  *)
(***************************************************************************)
\* the slots the callers own: those whose pointer or index a caller holds, and
\* the slot an alloc has reserved and is constructing in
Owned(t) == held[t] \cup (IF pc[t] = "ctor" THEN {index[t]} ELSE {})

\* C1: every index push_index hands out lies in [kElementOverheadCount,
\* kIndexCount), and no slot is handed out again before a pop_index of it has
\* completed: no two callers own the same slot, and no slot has two outstanding
\* hand-outs.
C1_HandedOutOnce ==
    /\ \A t \in Threads : Owned(t) \subseteq Slots
    /\ \A i \in Slots : live[i] <= 1
    /\ \A t1, t2 \in Threads : t1 # t2 => Owned(t1) \cap Owned(t2) = {}

\* C2: while no more slots are requested than the pool has, a thread finds in
\* every slot it holds the value it stored there, and when every thread has
\* released all its slots size() is 0.
C2_OwnValuesKept ==
    ~overDemand =>
        /\ \A t \in Threads : \A i \in held[t] \cap Slots :
               expect[t][i] # Uninit => elements[i] = expect[t][i]
        /\ (\A t \in Threads : pc[t] = "idle" /\ held[t] = {}) => size = 0

\* the walk of the free chain from the control word's free field
FreeWalk == WalkFree(control.free, elements, {}, kIndexCount)

\* C3: count = (next - kElementOverheadCount) - (length of the free chain
\* followed from free through the in-slot links until 0).
C3_CountIsFrontierMinusFree ==
    /\ FreeWalk.ok
    /\ control.count =
           (control.next - kElementOverheadCount) - Cardinality(FreeWalk.marked)

\* C4 (state part): 0 <= size() <= capacity(), empty() exactly when size() = 0,
\* full() exactly when size() = capacity().
C4_SizeWithinCapacity ==
    /\ 0 <= size /\ size <= max_size
    /\ empty <=> (size = 0)
    /\ full <=> (size = max_size)

\* a request for a slot made on a pool none of whose handed-out slots is free
Streak(c) == c.free = 0 /\ c.count = c.next - kElementOverheadCount

\* thread t leaves the top of the push_index loop in this step
Decides(t) == pc[t] = "push_top" /\ pc'[t] # "push_top"

\* thread t's request returns 0 / throws std::bad_alloc in this step
FailsNow(t) == pc[t] = "push_top" /\ pc'[t] = "idle"

\* C5: from an empty pool, allocating without freeing, a request succeeds while
\* fewer than capacity() slots are live and takes the next slot of the frontier;
\* with capacity() slots live it fails (alloc with std::bad_alloc, push_index
\* with 0) and leaves the control word, the cells and the live elements as they
\* were when it was called.
C5_FillToCapacity ==
    [][\A t \in Threads :
          /\ (Decides(t) /\ Streak(currFlags[t]))
                => (FailsNow(t) <=> currFlags[t].count = max_size)
          /\ FailsNow(t)
                => /\ ret'[t] = (IF op[t] = "alloc" THEN "bad_alloc" ELSE "zero")
                   /\ control' = pre[t] /\ elements' = elements
                   /\ obj' = obj /\ held' = held /\ live' = live
          /\ (pc[t] = "push_cas" /\ control' # control /\ Streak(control))
                => /\ control'.count = control.count + 1
                   /\ control.count < max_size
                   /\ PushResult(currFlags[t]) = kElementOverheadCount + control.count
                   /\ Streak(control')]_vars

\* capacity() allocs succeeded on the new pool and the next one threw
C5_Witness ==
    /\ ret[1] = "bad_alloc"
    /\ control = Flags(kIndexCount, max_size, 0, 0)
    /\ held[1] = Slots

\* C6: push_index returns 0 exactly when the control word it read has count =
\* capacity; count = capacity exactly when next = kIndexCount and free = 0; and
\* every slot below the frontier is on the free chain or live, none is lost.
C6_ExhaustedOnlyWhenFull ==
    /\ \A t \in Threads :
          pc[t] = "push_top" => (Exhausted(currFlags[t]) <=> currFlags[t].count = max_size)
    /\ (control.count = max_size) <=> (control.next = kIndexCount /\ control.free = 0)
    /\ FreeWalk.ok
    /\ \A i \in Slots :
          i < control.next => (i \in FreeWalk.marked \/ live[i] > 0)

\* C7: a step of alloc or free leaves the value of every element that is live
\* before and after it unchanged, and every held element holds the value its
\* holder stored.
C7_OtherElementsUntouched ==
    [][/\ \A i \in Slots : (obj[i] /\ obj'[i]) => elements'[i] = elements[i]
       /\ \A t \in Threads : \A i \in held[t] :
             obj[i] => elements[i] = expect[t][i]]_vars

\* two elements are held with their values after a freed slot was reused
C7_Witness ==
    /\ control.tag >= 2 /\ control.free # 0
    /\ \E i, j \in held[1] : i # j /\ elements[i] = 5 /\ elements[j] = 9
                            /\ obj[i] /\ obj[j]

\* the rollback of an alloc whose constructor threw completes in this step
RollsBack(t) == op[t] = "alloc" /\ pc[t] = "pop_cas" /\ pc'[t] = "idle"

\* C8: when the constructor throws inside alloc the exception reaches the caller
\* and size(), the live elements and their values are what they were before the
\* call; and alloc fails for lack of room only when capacity() slots are live.
C8_RollbackOnThrow ==
    [][\A t \in Threads :
          /\ RollsBack(t)
                => /\ ret'[t] = "ctor_exc"
                   /\ control'.count = pre[t].count
                   /\ held' = held /\ obj' = obj /\ expect' = expect
                   /\ live'[index[t]] = 0
                   /\ \A i \in Slots : obj[i] => elements'[i] = elements[i]
                   /\ index[t] \in WalkFree(control'.free, elements', {}, kIndexCount).marked
          /\ FailsNow(t) => currFlags[t].count = max_size]_vars

\* the second alloc threw: one element is live, as before the call
C8_Witness ==
    /\ ret[1] = "ctor_exc" /\ size = 1
    /\ \E i \in held[1] : obj[i] /\ elements[i] = expect[1][i]

\* C9: an alloc that throws, std::bad_alloc or the constructor's exception,
\* leaves the control word (next, count, free, tag) as it was before the call.
C9_ThrowLeavesStateUnchanged ==
    [][\A t \in Threads :
          (op[t] = "alloc" /\ pc[t] # "idle" /\ pc'[t] = "idle"
              /\ ret'[t] \in {"bad_alloc", "ctor_exc"})
             => control' = pre[t]]_vars

\* C10: every constructed element is finalised exactly once: no finaliser runs
\* on a slot without a constructed element (a free-listed slot, a slot beyond
\* the frontier, an element already finalised), no constructed element is
\* abandoned by clear, and the elements still constructed are those the caller
\* holds.
C10_CtorDtorPaired ==
    /\ ~badDtor /\ ~leaked
    /\ \A i \in Slots : obj[i] => \E t \in Threads : i \in held[t]

\* clear has finalised an element the caller never freed
C10_Witness ==
    /\ control = InitialFlags /\ calls[1] > 0
    /\ \E i \in Slots : elements[i] = 9
    /\ \A i \in Slots : ~obj[i]
    /\ \A t \in Threads : held[t] = {}

(***************************************************************************)
(* The sequential pool the operations are compared with: a set of live     *)
(* slots, a stack of freed slots and a frontier.  Its state is read off    *)
(* the pool: the stack is the chain of in-slot links from control.free.    *)
(***************************************************************************)
\* the chain from f as a sequence; a chain that leaves the slots, reads a cell
\* never written or does not end within fuel steps ends with the marker 0
RECURSIVE ChainSeq(_, _, _)
ChainSeq(f, e, fuel) ==
    IF f = 0 THEN <<>>
    ELSE IF fuel = 0 \/ f \notin Slots THEN <<0>>
    ELSE IF e[f] = Uninit THEN <<f, 0>>
    ELSE <<f>> \o ChainSeq(e[f] % IndexMod, e, fuel - 1)

FreeStack == ChainSeq(control.free, elements, kIndexCount)

\* the index the sequential pool returns for a request, 0 when it is exhausted
SeqPush(stack, frontier) ==
    IF stack # <<>> THEN Head(stack)
    ELSE IF frontier < kIndexCount THEN frontier
    ELSE 0

\* thread t's compare-exchange succeeds in this step
PushTakesEffect(t) == pc[t] = "push_cas" /\ pc'[t] # "push_cas" /\ control = currFlags[t]
PopTakesEffect(t) == pc[t] = "pop_cas" /\ pc'[t] # "pop_cas" /\ control = currFlags[t]

\* C11: push_index and pop_index are linearisable at their successful CAS: at
\* that step the index returned and the new membership of the slots (live,
\* free-listed, unused) are those of the sequential pool in the state before the
\* step, and at all times every slot has exactly one membership.
C11_Linearisable ==
    [][LET fs == FreeStack
           onStack == {fs[k] : k \in 1 .. Len(fs)}
       IN
       /\ 0 \notin onStack
       /\ \A i \in Slots :
             /\ ~(live[i] > 0 /\ i >= control.next)
             /\ i \in onStack => (live[i] = 0 /\ i < control.next)
       /\ control.count = Cardinality({i \in Slots : live[i] > 0})
       /\ \A t \in Threads :
             /\ PushTakesEffect(t) =>
                   LET i == SeqPush(fs, control.next) IN
                   /\ PushResult(currFlags[t]) = i
                   /\ i \in Slots /\ live[i] = 0 /\ live'[i] = 1
                   /\ FreeStack' = (IF fs # <<>> THEN Tail(fs) ELSE <<>>)
                   /\ control'.next = (IF fs # <<>> THEN control.next ELSE control.next + 1)
             /\ PopTakesEffect(t) =>
                   /\ live[index[t]] = 1 /\ live'[index[t]] = 0
                   /\ FreeStack' = <<index[t]>> \o fs
                   /\ control'.next = control.next
             /\ FailsNow(t) => SeqPush(ChainSeq(currFlags[t].free, elements, kIndexCount),
                                       currFlags[t].next) = 0]_vars

\* thread t attempts its compare-exchange in this step, and the attempt fails
CasAttempt(t) == pc[t] \in {"push_cas", "pop_cas"} /\ pc'[t] # pc[t]
CasFails(t) == CasAttempt(t) /\ pc'[t] \in {"push_top", "pop_top"}

\* C12: push_index and pop_index are lock-free.  A compare-exchange attempted
\* on the control word the caller read succeeds, so a call that meets no
\* interference completes at its first attempt; an attempt fails only when the
\* control word was changed after the caller read it, and the caller then
\* retries with the word it found; and with every thread scheduled fairly and
\* finitely many calls, every call returns.
C12_LockFree ==
    /\ [][\A t \in Threads :
             /\ (CasAttempt(t) /\ currFlags[t] = control) => ~CasFails(t)
             /\ CasFails(t) => /\ currFlags[t] # control
                               /\ control' = control
                               /\ currFlags'[t] = control']_vars
    /\ \A t \in Threads : (pc[t] # "idle") ~> (pc[t] = "idle" \/ aborted)

\* a thread is about to attempt its compare-exchange on a control word that
\* another thread's completed call has changed since
C12_Witness ==
    \E t, u \in Threads :
        /\ t # u
        /\ pc[t] = "push_cas" /\ currFlags[t] # control
        /\ pc[u] = "idle" /\ ret[u] = "ok"

\* C13: the tag only grows: no step of push_index or pop_index takes it to a
\* smaller value, so a control word read earlier is never met again once the
\* free list has changed.
C13_TagNeverRepeats ==
    [][/\ control'.tag >= control.tag
       /\ control'.free # control.free => control'.tag > control.tag]_vars

(***************************************************************************)
(* Claims on the layout and on addressing                                  *)
(***************************************************************************)
\* C14: every instantiation the static_asserts accept has sizeof(pool) = Size.
C14_SizeofIsSize ==
    (probe.kind = "instance" /\ ~probe.violation) => probe.value = tparams.S

\* the range of a w-byte unsigned integer covers n
Covers(w, n) == w >= 4 \/ n <= 2 ^ (8 * w) - 1

CeilDiv(a, b) == IF a % b = 0 THEN a \div b ELSE a \div b + 1

\* C16: capacity() is the number of slots, Size / sizeof(Element), less the
\* slots the control word covers, rounded up; it is at least 1, below
\* Size / sizeof(T), and 999 for an 8-byte T with Size = 8000.
C16_Capacity ==
    probe.kind = "capacity" =>
        /\ probe.value = (tparams.S \div ElementSizeOf(tparams))
                           - CeilDiv(SizeofControlOf(tparams), ElementSizeOf(tparams))
        /\ probe.value >= 1
        /\ probe.value * tparams.sizeofT < tparams.S
        /\ (tparams.sizeofT = 8 /\ tparams.S = 8000) => probe.value = 999

C16_Witness ==
    probe.kind = "capacity" /\ tparams = Inst(8, 8, 8000) /\ probe.value = 999

\* C17: index(get(i)) = i for every i in [kElementOverheadCount, kIndexCount),
\* get(index(p)) = p for every slot pointer p, and the pointer of a slot lies
\* inside the pool object at a multiple of sizeof(Element) from its start.
C17_RoundTrip ==
    [][/\ (probe'.kind = "get" /\ ~probe'.violation) =>
             /\ This <= probe'.value /\ probe'.value < This + tparams.S
             /\ (probe'.value - This) % ElementSizeOf(tparams) = 0
       /\ (probe.kind = "get" /\ probe'.kind = "index") =>
             ~probe'.violation /\ probe'.value = probe.arg
       /\ (probe.kind = "index" /\ probe'.kind = "get_back") =>
             ~probe'.violation /\ probe'.value = probe.arg]_vars

\* the last slot of a pool whose elements are padded: its pointer was turned
\* into its index and back
C17_Witness ==
    /\ probe.kind = "get_back" /\ ~probe.violation
    /\ tparams = Inst(3, 1, 512)
    /\ probe.value = probe.arg
    /\ probe.value = This + (IndexCountOf(tparams) - 1) * 4

(***************************************************************************)
(* Claims on calls that break a precondition                               *)
(***************************************************************************)
BadIndex(i) == i < kElementOverheadCount \/ i >= kIndexCount

BadPointer(p) ==
    p = Null \/ p < This \/ p >= This + Size \/ (p - This) % kElementSize # 0

\* a call of free or pop_index is made in this step
ReleaseCalled == probe' # probe /\ probe'.kind \in {"free", "pop_index"}

\* C18: pop_index with an index outside [kElementOverheadCount, kIndexCount),
\* and free with a pointer that is null, below the pool, at or beyond its end or
\* not at a multiple of sizeof(Element), end in the failed assertion before
\* anything else happens: no finaliser runs, and the control word and the cells
\* are left as they were.
C18_ViolationBeforeTouch ==
    [][(/\ ReleaseCalled
        /\ \/ probe'.kind = "pop_index" /\ BadIndex(probe'.arg)
           \/ probe'.kind = "free" /\ BadPointer(probe'.arg))
          => /\ probe'.violation /\ aborted'
             /\ obj' = obj /\ badDtor' = badDtor
             /\ control' = control /\ elements' = elements /\ pc' = pc]_vars

\* the slot a release call names, 0 when it names none
NamedSlot(pr) ==
    IF pr.kind = "pop_index" THEN (IF pr.arg \in Slots THEN pr.arg ELSE 0)
    ELSE IF SlotsAt(pr.arg) # {} THEN CHOOSE i \in SlotsAt(pr.arg) : TRUE
    ELSE 0

\* C19: free or pop_index on a slot that is not live (free-listed, or beyond
\* the frontier) ends in the failed assertion; count stays the number of live
\* slots and the free chain stays a chain without repetition.
C19_DeadReleaseRejected ==
    [][/\ (ReleaseCalled /\ NamedSlot(probe') # 0 /\ live[NamedSlot(probe')] = 0)
             => (probe'.violation /\ aborted' /\ control' = control)
       /\ LET fs == FreeStack IN
          /\ control.count = Cardinality({i \in Slots : live[i] > 0})
          /\ \A j, k \in 1 .. Len(fs) : fs[j] = 0 \/ (j # k => fs[j] # fs[k])]_vars

\* C19 as the code has it: free and pop_index do not tell a live slot from one
\* that is not.  A release that names a slot of the pool proceeds whatever the
\* slot's state, and when it takes effect count is decremented modulo the range
\* of index_type, the tag incremented, and the slot made the head of the chain
\* with the old head as its link, so that a slot released twice in a row links
\* to itself.
C19_DeadReleaseUndetected ==
    [][/\ (ReleaseCalled /\ NamedSlot(probe') # 0)
             => /\ ~probe'.violation /\ ~aborted'
                /\ \E t \in Threads : pc'[t] = "pop_top" /\ index'[t] = NamedSlot(probe')
       /\ \A t \in Threads :
             PopTakesEffect(t)
                => /\ control'.count = (control.count + IndexMod - 1) % IndexMod
                   /\ control'.tag = (control.tag + 1) % IndexMod
                   /\ control'.free = index[t]
                   /\ control'.next = control.next
                   /\ elements'[index[t]] % IndexMod = control.free]_vars

\* a slot was released twice in a row: it links to itself, and count, which was
\* 0 after the first release, has wrapped
C19_Witness ==
    /\ ~aborted /\ pc[1] = "idle"
    /\ control.free \in Slots /\ elements[control.free] = control.free
    /\ control.count = IndexMod - 1
    /\ \A i \in Slots : live[i] = 0

(***************************************************************************)
(* Claims on the allocator                                                 *)
(***************************************************************************)
AllocateCalled == probe' # probe /\ probe'.kind = "allocate"

\* C20: allocate(n) with n # 1 throws std::bad_alloc and leaves the pool as it
\* was; allocate(1) enters push_index and reserves exactly one slot, running no
\* constructor, or throws std::bad_alloc when capacity() slots are live;
\* deallocate(p, n) releases exactly the slot of p through pop_index and runs no
\* destructor.
C20_AllocatorSingleElements ==
    [][/\ (AllocateCalled /\ probe'.arg # 1)
             => /\ \E t \in Threads : ret'[t] = "bad_alloc" /\ pc'[t] = "idle"
                /\ control' = control /\ elements' = elements
                /\ held' = held /\ live' = live /\ obj' = obj
       /\ (AllocateCalled /\ probe'.arg = 1)
             => /\ \E t \in Threads : pc'[t] = "push_top" /\ op'[t] = "allocate"
                /\ control' = control /\ elements' = elements /\ obj' = obj
       /\ \A t \in Threads :
             /\ (op[t] = "allocate" /\ PushTakesEffect(t))
                   => /\ control'.count = control.count + 1
                      /\ control'.count <= max_size
                      /\ ret'[t] = "pointer"
                      /\ held'[t] = held[t] \cup {PushResult(currFlags[t])}
                      /\ Cardinality(held'[t]) = Cardinality(held[t]) + 1
                      /\ obj' = obj /\ elements' = elements
             /\ (op[t] = "allocate" /\ FailsNow(t))
                   => /\ ret'[t] = "bad_alloc"
                      /\ control.count = max_size /\ control' = control
             /\ (probe' # probe /\ probe'.kind = "deallocate")
                   => /\ ~aborted' /\ obj' = obj /\ badDtor' = badDtor
                      /\ probe'.arg = This + index'[1] * kElementSize
             /\ (op[t] = "deallocate" /\ PopTakesEffect(t))
                   => /\ control'.count = control.count - 1
                      /\ live'[index[t]] = 0 /\ live[index[t]] = 1
                      /\ \A i \in Slots \ {index[t]} : live'[i] = live[i]
                      /\ obj' = obj /\ badDtor' = badDtor
                      /\ ret'[t] = "ok"]_vars

\* allocate(2) has thrown on a pool with one slot reserved and one released
C20_Witness ==
    /\ probe.kind = "allocate" /\ probe.arg = 2
    /\ ret[1] = "bad_alloc" /\ pc[1] = "idle"
    /\ size = 1 /\ control.free # 0
    /\ Cardinality(held[1]) = 1

(***************************************************************************)
(* Claims on the smart pointers                                            *)
(***************************************************************************)
\* the slots owned by a smart pointer
Handled == {i \in Slots : handle[i].refs >= 1}

\* a smart pointer on slot i is dropped in this step
Dropped(i) == calls' # calls /\ handle'[i] # handle[i]

\* C21: make_unique and make_shared reserve one slot and construct one element
\* in it, as alloc does; dropping a smart pointer that is not the last one on
\* its element leaves the pool alone, and dropping the last one calls free on
\* the element once: its destructor runs once, size() shrinks by one and the
\* slot becomes the head of the free chain. With capacity() elements owned by
\* smart pointers one more make_unique or make_shared throws std::bad_alloc, and
\* with fewer it does not.
C21_HandlesFreeOnce ==
    [][/\ ~badDtor' /\ ~leaked'
       /\ \A i \in Handled : obj[i] /\ live[i] = 1 /\ i \in held[1]
       /\ \A t \in Threads :
             /\ (op[t] \in {"make_unique", "make_shared"} /\ PushTakesEffect(t))
                   => /\ control'.count = control.count + 1
                      /\ live'[PushResult(currFlags[t])] = 1
                      /\ live[PushResult(currFlags[t])] = 0
             /\ (op[t] \in {"make_unique", "make_shared"}
                     /\ pc[t] = "ctor" /\ pc'[t] = "idle")
                   => /\ ~obj[index[t]] /\ obj'[index[t]]
                      /\ handle[index[t]] = NoHandle
                      /\ handle'[index[t]].refs = 1
                      /\ handle'[index[t]].kind =
                             (IF op[t] = "make_unique" THEN "unique" ELSE "shared")
                      /\ \A j \in Slots \ {index[t]} :
                             obj'[j] = obj[j] /\ handle'[j] = handle[j]
             /\ FailsNow(t)
                   => /\ ret'[t] = "bad_alloc"
                      /\ Cardinality(Handled) = max_size
                      /\ control' = control /\ handle' = handle /\ obj' = obj
             /\ (Decides(t) /\ Cardinality(Handled) < max_size) => ~FailsNow(t)
             /\ (op[t] = "free" /\ PopTakesEffect(t))
                   => /\ control'.count = control.count - 1
                      /\ control'.free = index[t]
                      /\ live[index[t]] = 1 /\ live'[index[t]] = 0
                      /\ handle[index[t]] = NoHandle /\ ~obj[index[t]]
                      /\ obj' = obj /\ badDtor' = badDtor
       /\ \A i \in Slots :
             Dropped(i)
                => IF handle[i].refs > 1
                   THEN /\ handle'[i] = [handle[i] EXCEPT !.refs = @ - 1]
                        /\ control' = control /\ elements' = elements
                        /\ obj' = obj /\ pc' = pc /\ held' = held
                   ELSE /\ handle'[i] = NoHandle
                        /\ obj[i] /\ ~obj'[i]
                        /\ \A j \in Slots \ {i} : obj'[j] = obj[j] /\ handle'[j] = handle[j]
                        /\ pc'[1] = "pop_top" /\ index'[1] = i
                        /\ control' = control]_vars

\* capacity() elements are owned by smart pointers of both kinds, one of them in
\* a slot whose first owner was dropped, and one more request has thrown
C21_Witness ==
    /\ ret[1] = "bad_alloc" /\ pc[1] = "idle"
    /\ Handled = Slots
    /\ control.tag = 2 /\ control.count = max_size
    /\ \E i, j \in Slots : handle[i].kind = "unique" /\ handle[j] = Handle("shared", 2)

(***************************************************************************)
(* Claims on construction, clear and destruction                           *)
(***************************************************************************)
\* clear() or the destructor runs in this step
Sweeps == ~aborted /\ calls' = calls /\ \A t \in Threads : pc[t] = "idle"

\* C22: a new pool has the control word free = 0, next = kElementOverheadCount,
\* count = 0, tag = 0, and is empty; clear(), and the destructor, called while
\* no operation runs, end with the control word reset to exactly that; and
\* requests made on a pool with no freed slot, as after clear, succeed until
\* capacity() slots are live.
C22_ClearResets ==
    /\ (TotalCalls = 0 => (control = InitialFlags /\ empty /\ size = 0))
    /\ [][/\ Sweeps => (control' = InitialFlags /\ ~aborted' /\ empty' /\ size' = 0)
          /\ \A t \in Threads :
                (Decides(t) /\ Streak(currFlags[t]) /\ currFlags[t].count < max_size)
                   => ~FailsNow(t)]_vars

\* capacity() slots are live on a pool that was cleared after a slot was freed
C22_Witness ==
    /\ control = Flags(kIndexCount, max_size, 0, 0)
    /\ held[1] = Slots /\ pc[1] = "idle"
    /\ \E i \in Slots : elements[i] = 0

(***************************************************************************)
(* Claims on the transitions of push_index and pop_index                   *)
(***************************************************************************)
\* the index thread t's request hands to its caller in this step
Returned(t, i) ==
    IF op[t] \in {"push_index", "allocate"} THEN held'[t] = held[t] \cup {i} /\ i \notin held[t]
    ELSE index'[t] = i /\ pc'[t] = "ctor"

\* C23: a successful push_index makes one of two transitions on the control word
\* c it read. With c.free # 0 (Case A, whatever the frontier) it installs free =
\* the link stored in slot c.free, tag = c.tag + 1 (in index_type), count =
\* c.count + 1, next unchanged, and returns c.free: the slot released last is
\* reused first, and the rest of the chain stays. With c.free = 0 and c.next < kIndexCount (Case B)
\* it installs next = c.next + 1, count = c.count + 1, free = 0, tag unchanged,
\* and returns c.next. Otherwise (Case C) it returns 0 and writes nothing.
C23_PushTransitions ==
    [][\A t \in Threads :
          LET c == currFlags[t] IN
          /\ PushTakesEffect(t)
                => /\ c = control
                   /\ IF c.free # 0
                      THEN /\ control' = Flags(c.next, c.count + 1,
                                               elements[c.free] % IndexMod, Inc(c.tag))
                           /\ elements[c.free] # Uninit
                           /\ Returned(t, c.free)
                           /\ c.free = Head(FreeStack)
                           /\ FreeStack' = Tail(FreeStack)
                      ELSE /\ c.next < kIndexCount
                           /\ control' = Flags(c.next + 1, c.count + 1, 0, c.tag)
                           /\ Returned(t, c.next)
                           /\ FreeStack' = <<>>
                   /\ elements' = elements
          /\ Decides(t)
                => (FailsNow(t) <=> (c.free = 0 /\ c.next >= kIndexCount))
          /\ FailsNow(t)
                => /\ ret'[t] \in {"zero", "bad_alloc"}
                   /\ control' = control /\ elements' = elements
                   /\ held' = held /\ live' = live
          /\ PopTakesEffect(t)
                => FreeStack' = <<index[t]>> \o FreeStack]_vars

\* C24: pop_index(i) on a live index i ends with one successful CAS, which
\* replaces the control word c by free = i, tag = c.tag + 1 (in index_type),
\* count = c.count - 1 and next unchanged; at that step slot i stores the link
\* c.free, the head it replaces; and pop_index writes no slot other than i.
C24_PopTransition ==
    [][\A t \in Threads :
          LET i == index[t] IN
          /\ PopTakesEffect(t)
                => /\ live[i] >= 1 /\ InRange(i)
                   /\ control' = Flags(control.next, control.count - 1, i, Inc(control.tag))
                   /\ elements[i] # Uninit /\ elements[i] % IndexMod = control.free
                   /\ elements' = elements
                   /\ pc'[t] = "idle"
          /\ (pc[t] \in {"pop_top", "pop_cas"} /\ pc'[t] # pc[t])
                => \A j \in Slots \ {i} : elements'[j] = elements[j]
          /\ (pc[t] = "pop_cas" /\ pc'[t] = "pop_top")
                => control' = control /\ control # currFlags[t]]_vars

\* two slots were released in turn, and the pool is empty: the second is the
\* head of the chain and stores the link to the first
C24_Witness ==
    \E t \in Threads :
        /\ pc[t] = "idle" /\ ret[t] = "ok"
        /\ control.free \in Slots
        /\ elements[control.free] \in Slots
        /\ control.tag = 2 /\ control.count = 0

(***************************************************************************)
(* Claims on the free chain and the frontier                               *)
(***************************************************************************)
\* C25: in every reachable state the chain of links from control.free ends at 0
\* without leaving the slots, every index on it lies in [kElementOverheadCount,
\* next), no index is on it twice, and no slot on it is live.
C25_FreeChainSound ==
    LET fs == FreeStack
        onChain == {fs[k] : k \in 1 .. Len(fs)}
    IN
    /\ 0 \notin onChain
    /\ \A i \in onChain : InRange(i) /\ i < control.next
    /\ Cardinality(onChain) = Len(fs)
    /\ \A i \in onChain : live[i] = 0

\* the slots a thread is running the destructor of free on
Finalising(t) == IF pc[t] = "dtor" THEN {index[t]} ELSE {}

\* C26: free(item) ends item->~T() before it enters pop_index, and while the
\* destructor runs on a slot the slot is not on the free chain, no other thread
\* owns it or constructs in it, and no push_index hands it out.
C26_FinalisedBeforeRelinked ==
    /\ [](\A t \in Threads : \A i \in Finalising(t) :
             /\ \A k \in 1 .. Len(FreeStack) : FreeStack[k] # i
             /\ control.free # i
             /\ \A u \in Threads \ {t} : i \notin Owned(u) /\ i \notin Finalising(u))
    /\ [][\A t \in Threads :
             /\ (pc[t] = "dtor" /\ pc'[t] # "dtor")
                   => pc'[t] = "pop_top" /\ ~obj'[index[t]] /\ control' = control
             /\ PushTakesEffect(t)
                   => \A u \in Threads : PushResult(currFlags[t]) \notin Finalising(u)]_vars

\* C27: the index type can hold every value the pool stores in it: the number
\* of slots Size / kElementSize, hence every slot index, every link written
\* into a slot, and next and count, which no increment takes past the maximum
\* of the index type.
C27_IndexTypeCovers ==
    /\ [](Accepted(tparams) =>
             /\ Covers(IndexBytesOf(tparams), tparams.S \div ElementSizeOf(tparams))
             /\ IndexCountOf(tparams) = tparams.S \div ElementSizeOf(tparams)
             /\ MaxSizeOf(tparams) < IndexCountOf(tparams))
    /\ [](control.next <= kIndexCount /\ kIndexCount < IndexMod)
    /\ [][\A t \in Threads :
             /\ PushTakesEffect(t)
                   => /\ control'.count = control.count + 1
                      /\ control'.next \in {control.next, control.next + 1}
             /\ (pc[t] = "pop_top" /\ pc'[t] = "pop_cas")
                   => elements'[index[t]] \in 0 .. (kIndexCount - 1)]_vars

\* C28: when the Case-A CAS of push_index succeeds, the free head it installs is
\* the link slot c.free stores at that step, and that link is 0 or a slot that
\* is not live: a link read before the slot was reserved, written and released
\* again is never installed.
C28_LinkCurrentAtCAS ==
    [][\A t \in Threads :
          (PushTakesEffect(t) /\ currFlags[t].free # 0)
             => /\ elements[currFlags[t].free] # Uninit
                /\ newFlags[t].free = elements[currFlags[t].free] % IndexMod
                /\ control'.free = newFlags[t].free
                /\ \/ control'.free = 0
                   \/ control'.free \in Slots /\ live[control'.free] = 0]_vars

\* C29: clear() and the destructor of the pool run ~T() only on slots that hold
\* a constructed T: a slot reserved by push_index(), in which nothing was
\* constructed, is left alone.
C29_ClearSparesRawSlots ==
    [][Sweeps =>
          /\ badDtor' = badDtor
          /\ \A i \in Slots :
                (live[i] >= 1 /\ ~obj[i])
                   => i \notin Destroyed(control, FreeWalk.marked)]_vars

\* C30: kElementOverheadCount <= next <= kIndexCount in every reachable state;
\* only clear decreases next: pop_index, also as the rollback of an alloc whose
\* constructor threw, leaves it as it is; and Case B hands out the slot at the
\* frontier and moves the frontier past it, so that no slot below next is handed
\* out by Case B.
C30_FrontierMovesForward ==
    /\ [](kElementOverheadCount <= control.next /\ control.next <= kIndexCount)
    /\ [][/\ control'.next < control.next
                => (Sweeps /\ control' = InitialFlags)
          /\ \A t \in Threads :
                /\ PopTakesEffect(t) => control'.next = control.next
                /\ (PushTakesEffect(t) /\ currFlags[t].free = 0)
                      => /\ PushResult(currFlags[t]) = control.next
                         /\ control'.next = control.next + 1
                /\ (PushTakesEffect(t) /\ currFlags[t].free # 0)
                      => /\ control'.next = control.next
                         /\ PushResult(currFlags[t]) < control.next]_vars

\* an alloc whose constructor threw has been rolled back and the slot it gave
\* back has been reused: the frontier is where the two Case-B requests left it
C30_Witness ==
    /\ control = Flags(kElementOverheadCount + 2, 2, 0, 2)
    /\ \E t \in Threads : ret[t] = "ctor_exc"
    /\ \A t \in Threads : pc[t] = "idle"

====
